---- MODULE Spec2Model ----
(***************************************************************************)
(* The multi-chat state machine of frontend/src/App.tsx: the React state   *)
(* of the App component, its event handlers (createChat, openFilePicker,   *)
(* onPickFile, removeAttachment, handleSend, the tab, dropdown and         *)
(* textarea callbacks) and the two asynchronous continuations (the         *)
(* FileReader read of onPickFile and the fetch of handleSend).             *)
(*                                                                         *)
(* Spec   : every handler may be invoked in every state (the handlers'    *)
(*          own guards are what protects the state).                       *)
(* SpecUI : the handlers are invoked through the rendered controls only,   *)
(*          which are disabled as the JSX says.                            *)
(***************************************************************************)
EXTENDS Integers, Sequences, FiniteSets, TLC

(***************************************************************************)
(* Bounds of the model.                                                    *)
(***************************************************************************)
\* Messages (user and bot, all chats together) after which no further send is explored.
MaxMessages == 2
\* FileReader reads that may be pending at once.
MaxReads == 1
\* Chats after which Spec and SpecUI explore no further creation (SpecCap
\* creates up to the limit of createChat).
MaxChats == 2

(***************************************************************************)
(* JavaScript's null / undefined for an optional value: <<>> is null and   *)
(* <<v>> is the value v.                                                   *)
(***************************************************************************)
None == <<>>
Some(v) == <<v>>

\* The whitespace character of the composer texts.
SP == " "
\* Composer texts the user types (sequences of characters): empty, blank,
\* and a text padded with whitespace on both sides.
Texts == { <<>>, <<SP>>, <<SP, "h", "i", SP>> }

\* What `data.reply` is when the 200 body is a JSON object without a reply field.
UNDEFINED == <<"undefined">>
\* Reply texts of the backend.
Replies == { <<"o", "k">> }

MODELS ==
  << [key |-> "trinity_large_preview_free", label |-> "Trinity Large Preview (free)"],
     [key |-> "solar_pro_3_free", label |-> "Solar Pro 3"],
     [key |-> "molmo_2_8b_free", label |-> "Molmo 2 8B (free, vision)"] >>

ModelKeys == { MODELS[i].key : i \in DOMAIN MODELS }

\* The options the user picks in the dropdown: a text-only model and the
\* vision model (the two text-only models differ in key and label only).
DropdownKeys == { "solar_pro_3_free", "molmo_2_8b_free" }

\* MODEL_SUPPORTS_IMAGE[key]: the record holds molmo_2_8b_free only; any other
\* key reads undefined, which `!!` and `!` treat as false.
MODEL_SUPPORTS_IMAGE(key) == key = "molmo_2_8b_free"

MAX_IMAGE_BYTES == 5 * 1024 * 1024

\* MODELS.find((m) => m.key === key)?.label ?? "Model"
getModelLabel(key) ==
  IF \E i \in DOMAIN MODELS : MODELS[i].key = key
  THEN LET i == CHOOSE j \in DOMAIN MODELS :
                  /\ MODELS[j].key = key
                  /\ \A k \in DOMAIN MODELS : MODELS[k].key = key => j <= k
       IN MODELS[i].label
  ELSE "Model"

\* String.prototype.trim on a sequence of characters.
RECURSIVE trimStart(_)
trimStart(s) == IF s # <<>> /\ Head(s) = SP THEN trimStart(Tail(s)) ELSE s

RECURSIVE trimEnd(_)
trimEnd(s) ==
  IF s # <<>> /\ s[Len(s)] = SP THEN trimEnd(SubSeq(s, 1, Len(s) - 1)) ELSE s

trim(s) == trimEnd(trimStart(s))

(***************************************************************************)
(* Files the user may pick: name, declared type (a sequence whose first    *)
(* element is the part up to and including the slash), size in bytes and   *)
(* the base64 text FileReader produces for the content.                    *)
(***************************************************************************)
Files ==
  { [name |-> "max.jpg", type |-> <<"image/", "jpeg">>, size |-> MAX_IMAGE_BYTES,
     b64 |-> <<"/9j/4">>],
    [name |-> "big.png", type |-> <<"image/", "png">>, size |-> MAX_IMAGE_BYTES + 1,
     b64 |-> <<"iVBOR">>],
    [name |-> "notes.txt", type |-> <<"text/", "plain">>, size |-> 10,
     b64 |-> <<"aGVsb">>] }

\* FileReader.readAsDataURL: "data:<type>;base64,<payload>"
readAsDataURL(file) == <<"data:">> \o file.type \o <<";base64", ",">> \o file.b64

\* dataUrl.indexOf(","), 1-based; 0 when there is no comma
indexOfComma(s) ==
  IF \E i \in DOMAIN s : s[i] = ","
  THEN CHOOSE i \in DOMAIN s : s[i] = "," /\ \A j \in DOMAIN s : s[j] = "," => i <= j
  ELSE 0

dataUrlToBase64(dataUrl) ==
  LET comma == indexOfComma(dataUrl)
  IN IF comma >= 1 THEN SubSeq(dataUrl, comma + 1, Len(dataUrl)) ELSE dataUrl

\* file.type.startsWith("image/")
isImageType(file) == file.type # <<>> /\ Head(file.type) = "image/"

(***************************************************************************)
(* State: the useState cells of App, and the two kinds of suspended async  *)
(* function.                                                               *)
(***************************************************************************)
VARIABLES
  input,            \* composer text
  isSending,        \* in-flight flag
  error,            \* error slot: None or Some(message)
  selectedModelKey, \* dropdown selection
  imageAttachment,  \* composer attachment: None or Some(ImageAttachment)
  chats,            \* sequence of Chat
  activeChatId,     \* None or Some(id)
  pending,          \* handleSend calls suspended at `await fetch`, oldest first
  reads             \* onPickFile calls suspended at the FileReader promise

vars == << input, isSending, error, selectedModelKey, imageAttachment,
           chats, activeChatId, pending, reads >>

Init ==
  /\ input = <<>>
  /\ isSending = FALSE
  /\ error = None
  /\ selectedModelKey = "molmo_2_8b_free"
  /\ imageAttachment = None
  /\ chats = <<>>
  /\ activeChatId = None
  /\ pending = <<>>
  /\ reads = <<>>

(***************************************************************************)
(* Derived values of a render.                                             *)
(***************************************************************************)
ChatIds == { chats[i].id : i \in DOMAIN chats }

\* chats.find((c) => c.id === activeChatId) ?? null : the first match
activeChat ==
  IF activeChatId # None /\ \E i \in DOMAIN chats : chats[i].id = activeChatId[1]
  THEN LET i == CHOOSE j \in DOMAIN chats :
                  /\ chats[j].id = activeChatId[1]
                  /\ \A k \in DOMAIN chats : chats[k].id = activeChatId[1] => j <= k
       IN Some(chats[i])
  ELSE None

activeChatSupportsImages ==
  activeChat # None /\ MODEL_SUPPORTS_IMAGE(activeChat[1].modelKey)

hasImage == imageAttachment # None

TotalMessages ==
  LET RECURSIVE sum(_)
      sum(i) == IF i = 0 THEN 0 ELSE Len(chats[i].messages) + sum(i - 1)
  IN sum(Len(chats))

(***************************************************************************)
(* makeId(): Math.random().toString(36).slice(2) + Date.now().toString(36) *)
(* Ids are only ever compared for equality, so an id is modelled by a      *)
(* number naming its equality class.  Neither Math.random nor Date.now is  *)
(* bound to return a new value, so a call returns either an id it has      *)
(* returned before or a new one.                                           *)
(***************************************************************************)
FreshId == Cardinality(ChatIds) + 1

makeIdResults == {FreshId} \cup ChatIds

(***************************************************************************)
(* createChat                                                              *)
(***************************************************************************)
\* Mutant: the limit test written with > for >=.
chatLimitReached_offByOne == Len(chats) > 5

\* chats.length >= 5
chatLimitReached == Len(chats) >= 5

\* Mutant: the index is the count before the creation.
newChat_indexFromZero(id) ==
  LET nextIndex == Len(chats)
  IN [ id |-> id,
       index |-> nextIndex,
       title |-> <<"Chat ", nextIndex>>,
       modelKey |-> selectedModelKey,
       modelLabel |-> getModelLabel(selectedModelKey),
       messages |-> <<>> ]

\* The Chat object createChat builds; id is what makeId() returned.
newChat(id) ==
  LET nextIndex == Len(chats) + 1
  IN [ id |-> id,
       index |-> nextIndex,
       title |-> <<"Chat ", nextIndex>>,
       modelKey |-> selectedModelKey,
       modelLabel |-> getModelLabel(selectedModelKey),
       messages |-> <<>> ]

\* Mutant: the new chat is not made the active one.
createChat_keepsPointer(id) ==
  IF chatLimitReached
  THEN /\ error' = Some("You can create up to 5 chats.")
       /\ UNCHANGED << input, isSending, selectedModelKey, imageAttachment,
                       chats, activeChatId, pending, reads >>
  ELSE /\ error' = None
       /\ chats' = Append(chats, newChat(id))
       /\ input' = <<>>
       /\ imageAttachment' = None
       /\ UNCHANGED << isSending, selectedModelKey, activeChatId, pending, reads >>

\* Mutant: the composer is cleared before the limit is tested.
createChat_clearsComposerFirst(id) ==
  IF chatLimitReached
  THEN /\ error' = Some("You can create up to 5 chats.")
       /\ input' = <<>>
       /\ imageAttachment' = None
       /\ UNCHANGED << isSending, selectedModelKey, chats, activeChatId,
                       pending, reads >>
  ELSE /\ error' = None
       /\ chats' = Append(chats, newChat(id))
       /\ activeChatId' = Some(id)
       /\ input' = <<>>
       /\ imageAttachment' = None
       /\ UNCHANGED << isSending, selectedModelKey, pending, reads >>

createChat(id) ==
  IF chatLimitReached
  THEN /\ error' = Some("You can create up to 5 chats.")
       /\ UNCHANGED << input, isSending, selectedModelKey, imageAttachment,
                       chats, activeChatId, pending, reads >>
  ELSE /\ error' = None
       /\ chats' = Append(chats, newChat(id))
       /\ activeChatId' = Some(id)
       /\ input' = <<>>
       /\ imageAttachment' = None
       /\ UNCHANGED << isSending, selectedModelKey, pending, reads >>

(***************************************************************************)
(* The dropdown, the tabs, the textarea                                    *)
(***************************************************************************)
\* Mutant: the dropdown rebinds the model of the active chat as well.
setSelectedModelKey_rebindsActive(key) ==
  /\ selectedModelKey' = key
  /\ chats' = [ i \in DOMAIN chats |->
                  IF Some(chats[i].id) = activeChatId
                  THEN [chats[i] EXCEPT !.modelKey = key, !.modelLabel = getModelLabel(key)]
                  ELSE chats[i] ]
  /\ UNCHANGED << input, isSending, error, imageAttachment,
                  activeChatId, pending, reads >>

\* onChange of the model select
setSelectedModelKey(key) ==
  /\ selectedModelKey' = key
  /\ UNCHANGED << input, isSending, error, imageAttachment, chats,
                  activeChatId, pending, reads >>

\* Mutant: the tab click gives up the send in flight and clears the flag.
selectTab_releasesFlag(i) ==
  /\ activeChatId' = Some(chats[i].id)
  /\ error' = None
  /\ imageAttachment' = None
  /\ isSending' = FALSE
  /\ UNCHANGED << input, selectedModelKey, chats, pending, reads >>

\* Mutant: the tab click empties the composer text as createChat does.
selectTab_clearsInput(i) ==
  /\ activeChatId' = Some(chats[i].id)
  /\ error' = None
  /\ imageAttachment' = None
  /\ input' = <<>>
  /\ UNCHANGED << isSending, selectedModelKey, chats, pending, reads >>

\* Mutant: the tab click keeps the composer attachment.
selectTab_keepsAttachment(i) ==
  /\ activeChatId' = Some(chats[i].id)
  /\ error' = None
  /\ UNCHANGED << input, isSending, selectedModelKey, imageAttachment, chats,
                  pending, reads >>

\* onClick of the tab of chats[i]
selectTab(i) ==
  /\ activeChatId' = Some(chats[i].id)
  /\ error' = None
  /\ imageAttachment' = None
  /\ UNCHANGED << input, isSending, selectedModelKey, chats, pending, reads >>

\* onChange of the textarea
setInput(text) ==
  /\ input' = text
  /\ UNCHANGED << isSending, error, selectedModelKey, imageAttachment, chats,
                  activeChatId, pending, reads >>

(***************************************************************************)
(* The attachment: openFilePicker, onPickFile, the FileReader, remove      *)
(***************************************************************************)
openFilePicker ==
  /\ error' = IF activeChat = None
              THEN Some("Create a chat first (+) and select a model.")
              ELSE None
  /\ UNCHANGED << input, isSending, selectedModelKey, imageAttachment, chats,
                  activeChatId, pending, reads >>

\* Mutant: the size test written with >= for >.
onPickFile_rejectsAtLimit(picked) ==
  IF picked = None
  THEN /\ error' = None
       /\ UNCHANGED << input, isSending, selectedModelKey, imageAttachment,
                       chats, activeChatId, pending, reads >>
  ELSE IF ~isImageType(picked[1])
  THEN /\ error' = Some("Please attach an image file (png/jpg/webp).")
       /\ UNCHANGED << input, isSending, selectedModelKey, imageAttachment,
                       chats, activeChatId, pending, reads >>
  ELSE IF picked[1].size >= MAX_IMAGE_BYTES
  THEN /\ error' = Some("Image is too large. Please use an image under 5MB.")
       /\ UNCHANGED << input, isSending, selectedModelKey, imageAttachment,
                       chats, activeChatId, pending, reads >>
  ELSE /\ Len(reads) < MaxReads
       /\ error' = None
       /\ reads' = Append(reads, picked[1])
       /\ UNCHANGED << input, isSending, selectedModelKey, imageAttachment,
                       chats, activeChatId, pending >>

\* The synchronous part of onPickFile, up to the await; picked is None when
\* e.target.files is empty.
onPickFile(picked) ==
  IF picked = None
  THEN /\ error' = None
       /\ UNCHANGED << input, isSending, selectedModelKey, imageAttachment,
                       chats, activeChatId, pending, reads >>
  ELSE IF ~isImageType(picked[1])
  THEN /\ error' = Some("Please attach an image file (png/jpg/webp).")
       /\ UNCHANGED << input, isSending, selectedModelKey, imageAttachment,
                       chats, activeChatId, pending, reads >>
  ELSE IF picked[1].size > MAX_IMAGE_BYTES
  THEN /\ error' = Some("Image is too large. Please use an image under 5MB.")
       /\ UNCHANGED << input, isSending, selectedModelKey, imageAttachment,
                       chats, activeChatId, pending, reads >>
  ELSE /\ Len(reads) < MaxReads
       /\ error' = None
       /\ reads' = Append(reads, picked[1])
       /\ UNCHANGED << input, isSending, selectedModelKey, imageAttachment,
                       chats, activeChatId, pending >>

\* Sequence s without its i-th element.
removeAt(s, i) == SubSeq(s, 1, i - 1) \o SubSeq(s, i + 1, Len(s))

\* The ImageAttachment onPickFile builds once the read has produced dataUrl.
buildAttachment(file, dataUrl) ==
  [ name |-> file.name,
    mimeType |-> file.type,
    dataBase64 |-> dataUrlToBase64(dataUrl),
    dataUrl |-> dataUrl,
    sizeBytes |-> file.size ]

\* reader.onload: the i-th suspended onPickFile resumes and installs the attachment.
readLoaded(i) ==
  /\ imageAttachment' = Some(buildAttachment(reads[i], readAsDataURL(reads[i])))
  /\ reads' = removeAt(reads, i)
  /\ UNCHANGED << input, isSending, error, selectedModelKey, chats,
                  activeChatId, pending >>

\* reader.onerror: the promise rejects and onPickFile ends without touching the state.
readFailed(i) ==
  /\ reads' = removeAt(reads, i)
  /\ UNCHANGED << input, isSending, error, selectedModelKey, imageAttachment,
                  chats, activeChatId, pending >>

removeAttachment ==
  /\ imageAttachment' = None
  /\ UNCHANGED << input, isSending, error, selectedModelKey, chats,
                  activeChatId, pending, reads >>

(***************************************************************************)
(* handleSend, up to the await of fetch                                    *)
(***************************************************************************)
\* Mutant: the in-flight flag is not tested.
sendIgnored_noFlightCheck(text) == text = <<>>

\* !text || isSending
sendIgnored(text) == text = <<>> \/ isSending

\* Mutant: the user message has no preview of the attachment.
userMessage_dropsPreview(text, imageAtSend) ==
  [ role |-> "user",
    content |-> text,
    modelLabel |-> None,
    imageDataUrl |-> None,
    imageAlt |-> None ]

\* Mutant: the capability test is missing.
imageNotSupported_never == FALSE

\* Mutant: the capability of the dropdown's model is tested, not the active chat's.
imageNotSupported_usesDropdown == hasImage /\ ~MODEL_SUPPORTS_IMAGE(selectedModelKey)

\* hasImage && !activeChatSupportsImages
imageNotSupported == hasImage /\ ~activeChatSupportsImages

\* The user message of the optimistic append.
userMessage(text, imageAtSend) ==
  [ role |-> "user",
    content |-> text,
    modelLabel |-> None,
    imageDataUrl |-> IF imageAtSend # None THEN Some(imageAtSend[1].dataUrl) ELSE None,
    imageAlt |-> IF imageAtSend # None THEN Some(imageAtSend[1].name) ELSE None ]

\* The bot message of a reply.
botMessage(reply, modelLabelAtSend) ==
  [ role |-> "bot",
    content |-> reply,
    modelLabel |-> Some(modelLabelAtSend),
    imageDataUrl |-> None,
    imageAlt |-> None ]

\* Mutant: the message is put in front of the log.
appendMessage_prepends(prev, chatId, msg) ==
  [ i \in DOMAIN prev |->
      IF prev[i].id = chatId
      THEN [prev[i] EXCEPT !.messages = <<msg>> \o @]
      ELSE prev[i] ]

\* prev.map((c) => c.id === chatId ? {...c, messages: [...c.messages, msg]} : c)
appendMessage(prev, chatId, msg) ==
  [ i \in DOMAIN prev |->
      IF prev[i].id = chatId
      THEN [prev[i] EXCEPT !.messages = Append(@, msg)]
      ELSE prev[i] ]

\* Mutant: the body names the dropdown's model.
requestBody_usesDropdown(text, modelKeyAtSend, imageAtSend) ==
  [ message |-> text,
    model |-> selectedModelKey,
    image |-> IF imageAtSend # None
              THEN Some([ mime_type |-> imageAtSend[1].mimeType,
                          data_base64 |-> imageAtSend[1].dataBase64 ])
              ELSE None ]

\* The JSON body of the request.
requestBody(text, modelKeyAtSend, imageAtSend) ==
  [ message |-> text,
    model |-> modelKeyAtSend,
    image |-> IF imageAtSend # None
              THEN Some([ mime_type |-> imageAtSend[1].mimeType,
                          data_base64 |-> imageAtSend[1].dataBase64 ])
              ELSE None ]

\* What the suspended call keeps in its closure.
sendClosure(chatIdAtSend, modelLabelAtSend, body) ==
  [ chatIdAtSend |-> chatIdAtSend, modelLabelAtSend |-> modelLabelAtSend, body |-> body ]

\* Mutant: the capability of the model is tested before the active chat.
handleSend_capabilityFirst ==
  LET text == trim(input)
  IN IF sendIgnored(text)
     THEN UNCHANGED vars
     ELSE IF imageNotSupported
     THEN /\ error' = Some("Image input is only supported with Molmo. Create a Molmo chat to send images.")
          /\ UNCHANGED << input, isSending, selectedModelKey, imageAttachment,
                          chats, activeChatId, pending, reads >>
     ELSE IF activeChat = None
     THEN /\ error' = Some("Create a chat first (+) and select a model.")
          /\ UNCHANGED << input, isSending, selectedModelKey, imageAttachment,
                          chats, activeChatId, pending, reads >>
     ELSE LET chatIdAtSend == activeChat[1].id
              modelKeyAtSend == activeChat[1].modelKey
              modelLabelAtSend == activeChat[1].modelLabel
              imageAtSend == imageAttachment
          IN /\ TotalMessages < MaxMessages
             /\ error' = None
             /\ input' = <<>>
             /\ imageAttachment' = None
             /\ chats' = appendMessage(chats, chatIdAtSend, userMessage(text, imageAtSend))
             /\ isSending' = TRUE
             /\ pending' = Append(pending,
                   sendClosure(chatIdAtSend, modelLabelAtSend,
                               requestBody(text, modelKeyAtSend, imageAtSend)))
             /\ UNCHANGED << selectedModelKey, activeChatId, reads >>

handleSend ==
  LET text == trim(input)
  IN IF sendIgnored(text)
     THEN UNCHANGED vars
     ELSE IF activeChat = None
     THEN /\ error' = Some("Create a chat first (+) and select a model.")
          /\ UNCHANGED << input, isSending, selectedModelKey, imageAttachment,
                          chats, activeChatId, pending, reads >>
     ELSE IF imageNotSupported
     THEN /\ error' = Some("Image input is only supported with Molmo. Create a Molmo chat to send images.")
          /\ UNCHANGED << input, isSending, selectedModelKey, imageAttachment,
                          chats, activeChatId, pending, reads >>
     ELSE LET chatIdAtSend == activeChat[1].id
              modelKeyAtSend == activeChat[1].modelKey
              modelLabelAtSend == activeChat[1].modelLabel
              imageAtSend == imageAttachment
          IN /\ TotalMessages < MaxMessages
             /\ error' = None
             /\ input' = <<>>
             /\ imageAttachment' = None
             /\ chats' = appendMessage(chats, chatIdAtSend, userMessage(text, imageAtSend))
             /\ isSending' = TRUE
             /\ pending' = Append(pending,
                   sendClosure(chatIdAtSend, modelLabelAtSend,
                               requestBody(text, modelKeyAtSend, imageAtSend)))
             /\ UNCHANGED << selectedModelKey, activeChatId, reads >>

(***************************************************************************)
(* handleSend, from the await of fetch on: the backend's outcomes          *)
(***************************************************************************)
\* `HTTP ${res.status}: ${t}`
httpErrorMessage(status, t) == "HTTP " \o status \o ": " \o t

\* What the try block may throw: the Error of a non-ok status, the rejection
\* of fetch (no connection), the rejection of res.json() (the body is no JSON).
Failures ==
  { [kind |-> "status", message |-> Some(httpErrorMessage("500", "boom"))],
    [kind |-> "network", message |-> Some("Failed to fetch")],
    [kind |-> "body", message |-> Some("Unexpected token < in JSON")] }

\* e?.message ?? "Unknown error"
caughtMessage(e) == IF e.message # None THEN e.message[1] ELSE "Unknown error"

\* Mutant: the flag is cleared in catch only.
fetchResolved_keepsFlag(i, reply) ==
  /\ chats' = [ a \in DOMAIN chats |->
                  IF chats[a].id = pending[i].chatIdAtSend
                  THEN [chats[a] EXCEPT !.messages =
                          Append(@, botMessage(reply, pending[i].modelLabelAtSend))]
                  ELSE chats[a] ]
  /\ pending' = removeAt(pending, i)
  /\ UNCHANGED << input, isSending, error, selectedModelKey, imageAttachment,
                  activeChatId, reads >>

\* Mutant: the reply goes to the chat that is active when it arrives.
fetchResolved_toActive(i, reply) ==
  /\ chats' = [ a \in DOMAIN chats |->
                  IF Some(chats[a].id) = activeChatId
                  THEN [chats[a] EXCEPT !.messages =
                          Append(@, botMessage(reply, pending[i].modelLabelAtSend))]
                  ELSE chats[a] ]
  /\ isSending' = FALSE
  /\ pending' = removeAt(pending, i)
  /\ UNCHANGED << input, error, selectedModelKey, imageAttachment,
                  activeChatId, reads >>

\* res.ok and res.json() resolved: reply is data.reply, UNDEFINED when the
\* JSON object has no reply field.
fetchResolved(i, reply) ==
  /\ chats' = appendMessage(chats, pending[i].chatIdAtSend,
                            botMessage(reply, pending[i].modelLabelAtSend))
  /\ isSending' = FALSE
  /\ pending' = removeAt(pending, i)
  /\ UNCHANGED << input, error, selectedModelKey, imageAttachment,
                  activeChatId, reads >>

\* Mutant: the flag is cleared on the success path only (no finally).
fetchFailed_keepsFlag(i, e) ==
  /\ error' = Some(caughtMessage(e))
  /\ pending' = removeAt(pending, i)
  /\ UNCHANGED << input, isSending, selectedModelKey, imageAttachment, chats,
                  activeChatId, reads >>

\* The try block threw e: catch, then finally.
fetchFailed(i, e) ==
  /\ error' = Some(caughtMessage(e))
  /\ isSending' = FALSE
  /\ pending' = removeAt(pending, i)
  /\ UNCHANGED << input, selectedModelKey, imageAttachment, chats,
                  activeChatId, reads >>

(***************************************************************************)
(* Spec: every handler may be invoked in every state.                      *)
(***************************************************************************)
CreateChat == Len(chats) < MaxChats /\ \E id \in makeIdResults : createChat(id)
SetSelectedModelKey == \E key \in DropdownKeys : setSelectedModelKey(key)
SelectTab == \E i \in DOMAIN chats : selectTab(i)
SetInput == \E text \in Texts : setInput(text)
OpenFilePicker == openFilePicker
OnPickFile == \E picked \in {None} \cup { Some(f) : f \in Files } : onPickFile(picked)
ReadLoaded == \E i \in DOMAIN reads : readLoaded(i)
ReadFailed == \E i \in DOMAIN reads : readFailed(i)
RemoveAttachment == removeAttachment
HandleSend == handleSend
FetchResolved ==
  \E i \in DOMAIN pending : \E reply \in Replies \cup {UNDEFINED} : fetchResolved(i, reply)
FetchFailed == \E i \in DOMAIN pending : \E e \in Failures : fetchFailed(i, e)

Next ==
  \/ CreateChat
  \/ SetSelectedModelKey
  \/ SelectTab
  \/ SetInput
  \/ OpenFilePicker
  \/ OnPickFile
  \/ ReadLoaded
  \/ ReadFailed
  \/ RemoveAttachment
  \/ HandleSend
  \/ FetchResolved
  \/ FetchFailed

Spec == Init /\ [][Next]_vars

(***************************************************************************)
(* SpecUI: the handlers as the rendered controls invoke them.  A control   *)
(* whose `disabled` attribute is true fires no event; React renders after  *)
(* every event, so each event meets the attributes of the current state.   *)
(***************************************************************************)
\* Mutant: the + button stays enabled while a send is in flight.
createDisabled_ignoresSending == Len(chats) >= 5

\* the + button: disabled={isSending || chats.length >= 5}
createDisabled == isSending \/ Len(chats) >= 5

\* the model select: disabled={isSending}
selectDisabled == isSending

\* the tab of chats[i]: disabled={isSending && isActive}
tabDisabled(i) == isSending /\ Some(chats[i].id) = activeChatId

\* Mutant: the attach button stays enabled while a send is in flight.
attachDisabled_ignoresSending == activeChat = None

\* the attach button: disabled={isSending || !activeChat}
attachDisabled == isSending \/ activeChat = None

\* the textarea: disabled={isSending || !activeChat}
textareaDisabled == isSending \/ activeChat = None

\* the Send button: disabled={sendDisabled}
sendDisabled ==
  \/ isSending
  \/ activeChat = None
  \/ trim(input) = <<>>
  \/ (hasImage /\ ~activeChatSupportsImages)

\* the remove button is rendered with the attachment row only
removeRendered == imageAttachment # None

ClickCreate ==
  /\ ~createDisabled
  /\ Len(chats) < MaxChats
  /\ \E id \in makeIdResults : createChat(id)
ChangeModel == ~selectDisabled /\ \E key \in DropdownKeys : setSelectedModelKey(key)
ClickTab == \E i \in DOMAIN chats : ~tabDisabled(i) /\ selectTab(i)
TypeText == ~textareaDisabled /\ \E text \in Texts : setInput(text)
\* onKeyDown: Enter without Shift calls handleSend
PressEnter == ~textareaDisabled /\ handleSend
ClickSend == ~sendDisabled /\ handleSend
\* The attach button opens the file dialog ...
ClickAttach == ~attachDisabled /\ openFilePicker
\* ... which is modal: its change event meets the state the button was clicked in.
ChooseFile == ~attachDisabled /\ \E f \in Files : onPickFile(Some(f))
ClickRemove == removeRendered /\ removeAttachment

NextUI ==
  \/ ClickCreate
  \/ ChangeModel
  \/ ClickTab
  \/ TypeText
  \/ PressEnter
  \/ ClickSend
  \/ ClickAttach
  \/ ChooseFile
  \/ ClickRemove
  \/ ReadLoaded
  \/ ReadFailed
  \/ FetchResolved
  \/ FetchFailed

SpecUI == Init /\ [][NextUI]_vars

(***************************************************************************)
(* SpecCap: every handler may be invoked in every state and chats are      *)
(* created up to the limit of createChat; the inputs are one text, the     *)
(* accepted file, new ids and the successful response.                     *)
(***************************************************************************)
CapTexts == { <<SP, "h", "i", SP>> }
CapFiles == { f \in Files : isImageType(f) /\ f.size <= MAX_IMAGE_BYTES }

CapCreateChat == createChat(FreshId)
CapSetInput == \E text \in CapTexts : setInput(text)
CapOnPickFile == \E f \in CapFiles : onPickFile(Some(f))
CapFetchResolved == \E i \in DOMAIN pending : \E reply \in Replies : fetchResolved(i, reply)

NextCap ==
  \/ CapCreateChat
  \/ SetSelectedModelKey
  \/ SelectTab
  \/ CapSetInput
  \/ CapOnPickFile
  \/ ReadLoaded
  \/ HandleSend
  \/ CapFetchResolved

SpecCap == Init /\ [][NextCap]_vars

(***************************************************************************)
(* SpecPick: every handler may be invoked in every state; the user has a   *)
(* second file that passes both tests of onPickFile, so that one           *)
(* attachment can take the place of another; the other inputs are one      *)
(* text, new ids, the successful response and the network failure.         *)
(***************************************************************************)
PickFiles ==
  Files \cup { [name |-> "small.png", type |-> <<"image/", "png">>, size |-> 10,
                b64 |-> <<"iVBOR">>] }

PickCreateChat == Len(chats) < MaxChats /\ createChat(FreshId)
PickOnPickFile == \E picked \in {None} \cup { Some(f) : f \in PickFiles } : onPickFile(picked)

PickFetchFailed ==
  \E i \in DOMAIN pending : \E e \in { f \in Failures : f.kind = "network" } : fetchFailed(i, e)

NextPick ==
  \/ PickCreateChat
  \/ SelectTab
  \/ CapSetInput
  \/ OpenFilePicker
  \/ PickOnPickFile
  \/ ReadLoaded
  \/ ReadFailed
  \/ RemoveAttachment
  \/ HandleSend
  \/ CapFetchResolved
  \/ PickFetchFailed

SpecPick == Init /\ [][NextPick]_vars

(***************************************************************************)
(* SpecLate: SpecUI where the user picks files only in the composer of the *)
(* first session, while it is the only session and before any send.  So a *)
(* read in progress is always that of a file picked with the first session *)
(* active and with no message in any log.                                  *)
(***************************************************************************)
LateChooseFile ==
  /\ ~attachDisabled
  /\ Len(chats) = 1
  /\ TotalMessages = 0
  /\ \E f \in Files : onPickFile(Some(f))

NextLate ==
  \/ ClickCreate
  \/ ChangeModel
  \/ ClickTab
  \/ TypeText
  \/ PressEnter
  \/ ClickSend
  \/ ClickAttach
  \/ LateChooseFile
  \/ ClickRemove
  \/ ReadLoaded
  \/ ReadFailed
  \/ FetchResolved
  \/ FetchFailed

SpecLate == Init /\ [][NextLate]_vars

(***************************************************************************)
(* SpecUIFair: SpecUI where every outstanding request completes.           *)
(***************************************************************************)
SpecUIFair == SpecUI /\ WF_vars(FetchResolved \/ FetchFailed)

(***************************************************************************)
(* Properties                                                              *)
(***************************************************************************)
IsPrefix(s, t) == Len(s) <= Len(t) /\ SubSeq(t, 1, Len(s)) = s

LimitError == Some("You can create up to 5 chats.")
CapabilityError ==
  Some("Image input is only supported with Molmo. Create a Molmo chat to send images.")

DistinctIds == \A i, j \in DOMAIN chats : chats[i].id = chats[j].id => i = j

HasBotMessage(chat) == \E k \in DOMAIN chat.messages : chat.messages[k].role = "bot"

\* C1: when the request of a send issued on session A gets its successful
\* response, the bot reply is appended to the log of A, the session whose id
\* the send snapshotted, and the log of every other session stays as it was,
\* whichever sessions were selected or created in between.
C1_RouteByIdentity ==
  [][ \A i \in DOMAIN pending : \A reply \in Replies :
        fetchResolved(i, reply) =>
          \E a \in DOMAIN chats :
            /\ chats[a].id = pending[i].chatIdAtSend
            /\ chats'[a].messages =
                 Append(chats[a].messages, botMessage(reply, pending[i].modelLabelAtSend))
            /\ \A b \in DOMAIN chats \ {a} : chats'[b].messages = chats[b].messages
    ]_vars

\* The routing of C1 in the states where makeId has returned no id twice.
RouteByIdentityWhenIdsDistinct ==
  [][ \A i \in DOMAIN pending : \A reply \in Replies :
        (DistinctIds /\ fetchResolved(i, reply)) =>
          \E a \in DOMAIN chats :
            /\ chats[a].id = pending[i].chatIdAtSend
            /\ chats'[a].messages =
                 Append(chats[a].messages, botMessage(reply, pending[i].modelLabelAtSend))
            /\ \A b \in DOMAIN chats \ {a} : chats'[b].messages = chats[b].messages
    ]_vars

\* C2: in every reachable state there are at most 5 sessions.
C2_SessionCap == Len(chats) <= 5

\* Five sessions of two models, one with a reply in its log, an earlier one
\* selected, and a sixth creation refused.
C2_Witness ==
  /\ Len(chats) = 5
  /\ \E i \in DOMAIN chats : chats[i].modelKey # chats[1].modelKey
  /\ \E i \in DOMAIN chats : HasBotMessage(chats[i])
  /\ activeChatId # Some(chats[5].id)
  /\ error = LimitError

\* C3: createChat called when 5 sessions exist sets the limit error and leaves
\* the sessions, the active-session pointer, the composer text and the composer
\* attachment as they were.
C3_LimitLeavesStateUnchanged ==
  [][ \A id \in makeIdResults :
        (Len(chats) = 5 /\ createChat(id)) =>
          /\ error' = LimitError
          /\ chats' = chats
          /\ activeChatId' = activeChatId
          /\ input' = input
          /\ imageAttachment' = imageAttachment
    ]_vars

\* The refused sixth creation with a text and an attachment in the composer
\* and a message in a log.
C3_Witness ==
  /\ Len(chats) = 5
  /\ error = LimitError
  /\ input # <<>>
  /\ imageAttachment # None
  /\ TotalMessages > 0

\* C4: at most one request is outstanding, and handleSend called while the
\* in-flight flag is set issues no request, appends no message and leaves the
\* composer text, the attachment and the error slot as they were.
C4_SingleFlight ==
  /\ [](Len(pending) <= 1)
  /\ [][ (isSending /\ handleSend) =>
           UNCHANGED << pending, chats, input, imageAttachment, error >> ]_vars

\* A send in flight with a sendable text, an attachment and an error in the composer.
C4_Witness ==
  /\ isSending
  /\ Len(pending) = 1
  /\ trim(input) # <<>>
  /\ imageAttachment # None
  /\ error # None
  /\ activeChat # None

\* C5: no step changes the modelKey or modelLabel of an existing session, a
\* created session gets the dropdown selection of that moment and its label,
\* and the request of an accepted send carries the modelKey of the session it
\* was sent from.
C5_ModelImmutable ==
  [][ /\ Len(chats') >= Len(chats)
      /\ \A i \in DOMAIN chats :
           /\ chats'[i].modelKey = chats[i].modelKey
           /\ chats'[i].modelLabel = chats[i].modelLabel
      /\ \A i \in DOMAIN chats' \ DOMAIN chats :
           /\ chats'[i].modelKey = selectedModelKey
           /\ \E m \in DOMAIN MODELS :
                MODELS[m].key = selectedModelKey /\ MODELS[m].label = chats'[i].modelLabel
      /\ Len(pending') > Len(pending) =>
           /\ activeChat # None
           /\ pending'[Len(pending')].body.model = activeChat[1].modelKey
           /\ \E i \in DOMAIN chats' :
                /\ chats'[i].id = pending'[Len(pending')].chatIdAtSend
                /\ chats'[i].modelKey = pending'[Len(pending')].body.model
    ]_vars

\* A request in flight from a session whose model is not the dropdown's
\* selection any more, a later session having been created with that selection.
C5_Witness ==
  /\ pending # <<>>
  /\ pending[1].body.model # selectedModelKey
  /\ \E i, j \in DOMAIN chats :
       /\ chats[i].id = pending[1].chatIdAtSend
       /\ chats[i].modelKey = pending[1].body.model
       /\ i < j
       /\ chats[j].modelKey = selectedModelKey

\* C6: no step removes or reorders a session, and the message log of every
\* session before a step is a prefix of its log after the step.
C6_AppendOnly ==
  [][ /\ Len(chats') >= Len(chats)
      /\ \A i \in DOMAIN chats :
           /\ chats'[i].id = chats[i].id
           /\ IsPrefix(chats[i].messages, chats'[i].messages)
    ]_vars

\* A log of three messages, a reply among them.
C6_Witness ==
  \E i \in DOMAIN chats : Len(chats[i].messages) >= 3 /\ HasBotMessage(chats[i])

\* C7: a send with a non-empty text and a pending attachment on a session whose
\* model lacks image support sets the capability error, appends no message,
\* issues no request, leaves the in-flight flag clear and keeps the composer
\* text and attachment; on a session whose model supports images it is
\* accepted and the user message appended to that session carries the
\* attachment's data URL and file name.
C7_ImageGating ==
  [][ (handleSend /\ trim(input) # <<>> /\ imageAttachment # None /\ activeChat # None) =>
        IF ~MODEL_SUPPORTS_IMAGE(activeChat[1].modelKey)
        THEN /\ error' = CapabilityError
             /\ chats' = chats
             /\ pending' = pending
             /\ ~isSending'
             /\ input' = input
             /\ imageAttachment' = imageAttachment
        ELSE /\ isSending'
             /\ Len(pending') = Len(pending) + 1
             /\ \E a \in DOMAIN chats :
                  /\ chats[a].id = activeChat[1].id
                  /\ Len(chats'[a].messages) = Len(chats[a].messages) + 1
                  /\ LET m == chats'[a].messages[Len(chats'[a].messages)]
                     IN /\ m.role = "user"
                        /\ m.content = trim(input)
                        /\ m.imageDataUrl = Some(imageAttachment[1].dataUrl)
                        /\ m.imageAlt = Some(imageAttachment[1].name)
    ]_vars

\* The send refused on a text-only session, text and attachment still in the
\* composer, after the send of an image on a vision session was accepted.
C7_Witness ==
  /\ error = CapabilityError
  /\ imageAttachment # None
  /\ trim(input) # <<>>
  /\ ~isSending
  /\ activeChat # None
  /\ ~MODEL_SUPPORTS_IMAGE(activeChat[1].modelKey)
  /\ \E i \in DOMAIN chats : \E k \in DOMAIN chats[i].messages :
       /\ MODEL_SUPPORTS_IMAGE(chats[i].modelKey)
       /\ chats[i].messages[k].role = "user"
       /\ chats[i].messages[k].imageDataUrl # None

\* C8: no outstanding request carries an image together with a model that
\* lacks image support.
C8_NoImageToTextOnlyModel ==
  \A i \in DOMAIN pending :
    pending[i].body.image # None => MODEL_SUPPORTS_IMAGE(pending[i].body.model)

\* A request with an image is in flight while the composer of a text-only
\* session, selected after the send, holds an attachment whose read has finished.
C8_Witness ==
  /\ pending # <<>>
  /\ pending[1].body.image # None
  /\ imageAttachment # None
  /\ activeChat # None
  /\ ~MODEL_SUPPORTS_IMAGE(activeChat[1].modelKey)
  /\ activeChat[1].id # pending[1].chatIdAtSend

\* C9: the step that completes the request of a send, with whatever outcome,
\* leaves the in-flight flag clear; when every outstanding request completes,
\* a set flag is eventually clear.
C9_FlagReleased ==
  /\ [][ Len(pending') < Len(pending) => ~isSending' ]_vars
  /\ (isSending ~> ~isSending)

\* A request has failed: its user message is the last of its log, the flag is clear.
C9_Witness ==
  /\ ~isSending
  /\ pending = <<>>
  /\ error \in { Some(e.message[1]) : e \in Failures }
  /\ \E i \in DOMAIN chats :
       /\ chats[i].messages # <<>>
       /\ chats[i].messages[Len(chats[i].messages)].role = "user"

\* C10: when the request of an accepted send fails (non-success status, network
\* failure, or a response that is not the expected { reply: string }), no
\* message is appended to any session, the error slot holds the failure's
\* message, and the user message of the send is still in the log of its session.
C10_FailedSend ==
  [][ \A i \in DOMAIN pending :
        ( \/ \E e \in Failures : fetchFailed(i, e)
          \/ fetchResolved(i, UNDEFINED) ) =>
          /\ chats' = chats
          /\ error' # None
          /\ \A e \in Failures : fetchFailed(i, e) => error' = Some(e.message[1])
          /\ \E a \in DOMAIN chats' : \E k \in DOMAIN chats'[a].messages :
               /\ chats'[a].id = pending[i].chatIdAtSend
               /\ chats'[a].messages[k].role = "user"
               /\ chats'[a].messages[k].content = pending[i].body.message
    ]_vars

\* The part of C10 about the outcomes the try block throws on.
FailedSendWhenThrown ==
  [][ \A i \in DOMAIN pending : \A e \in Failures :
        fetchFailed(i, e) =>
          /\ chats' = chats
          /\ error' = Some(e.message[1])
          /\ \E a \in DOMAIN chats' : \E k \in DOMAIN chats'[a].messages :
               /\ chats'[a].id = pending[i].chatIdAtSend
               /\ chats'[a].messages[k].role = "user"
               /\ chats'[a].messages[k].content = pending[i].body.message
    ]_vars

\* C11: onPickFile with a file whose declared type is no image type, or whose
\* size is above 5 * 1024 * 1024 bytes, sets the validation error of that test
\* and leaves the composer attachment (none or an existing one) and the reads
\* in progress as they were; an image file of at most 5 * 1024 * 1024 bytes
\* sets no error and is read, and when its read has finished the composer
\* attachment is the one built from that file, whatever it was before.
C11_AttachmentValidation ==
  /\ [][ \A f \in PickFiles :
           onPickFile(Some(f)) =>
             IF Head(f.type) # "image/"
             THEN /\ error' = Some("Please attach an image file (png/jpg/webp).")
                  /\ imageAttachment' = imageAttachment
                  /\ reads' = reads
             ELSE IF f.size > 5242880
             THEN /\ error' = Some("Image is too large. Please use an image under 5MB.")
                  /\ imageAttachment' = imageAttachment
                  /\ reads' = reads
             ELSE /\ error' = None
                  /\ imageAttachment' = imageAttachment
                  /\ reads' = Append(reads, f)
       ]_vars
  /\ [][ \A i \in DOMAIN reads :
           readLoaded(i) =>
             /\ imageAttachment' # None
             /\ imageAttachment'[1].name = reads[i].name
             /\ imageAttachment'[1].mimeType = reads[i].type
             /\ imageAttachment'[1].sizeBytes = reads[i].size
             /\ imageAttachment'[1].dataBase64 = reads[i].b64
       ]_vars

\* The file of exactly 5 MiB is the composer attachment, the read of another
\* accepted file is in progress, and the pick of the file one byte larger has
\* just been refused.
C11_Witness ==
  /\ imageAttachment # None
  /\ imageAttachment[1].sizeBytes = 5242880
  /\ error = Some("Image is too large. Please use an image under 5MB.")
  /\ reads # <<>>
  /\ reads[1].name # imageAttachment[1].name

\* C12: in the state right after the successful response of a send and in the
\* state right after a session is created the error slot is empty, and the
\* slot never holds more than one message: a step that sets a message leaves
\* that message alone in the slot.
C12_ErrorClearedBySuccess ==
  /\ [][ \A i \in DOMAIN pending : \A reply \in Replies :
           fetchResolved(i, reply) => error' = None ]_vars
  /\ [][ Len(chats') > Len(chats) => error' = None ]_vars
  /\ [](Len(error) <= 1)

\* The part of C12 about session creation and the single slot, which does not
\* depend on which controls are enabled.
ErrorClearedByCreation ==
  /\ [][ Len(chats') > Len(chats) => error' = None ]_vars
  /\ [](Len(error) <= 1)

\* A reply has been appended and the slot is empty, in a session created
\* after a send on another session had failed.
C12_Witness ==
  /\ error = None
  /\ ~isSending
  /\ Len(chats) >= 2
  /\ chats[1].messages # <<>>
  /\ chats[1].messages[Len(chats[1].messages)].role = "user"
  /\ chats[2].messages # <<>>
  /\ chats[2].messages[Len(chats[2].messages)].role = "bot"
  /\ chats[2].messages[Len(chats[2].messages)].content \in Replies

C14_AttachmentCleared ==
  /\ [][ Len(pending') > Len(pending) => imageAttachment' = None ]_vars
  /\ [][ removeAttachment => imageAttachment' = None ]_vars
  /\ [][ \A i \in DOMAIN chats : selectTab(i) => imageAttachment' = None ]_vars
  /\ [][ Len(chats') > Len(chats) => imageAttachment' = None ]_vars

\* The request of a send that carried an image is in flight, the composer is
\* empty, and another session has been selected since.
C14_Witness ==
  /\ imageAttachment = None
  /\ pending # <<>>
  /\ pending[1].body.image # None
  /\ activeChatId # Some(pending[1].chatIdAtSend)
  /\ reads = <<>>

\* C15: the step that accepts a send (the in-flight flag goes from false to
\* true) issues exactly one request, and no other step issues one; the
\* request's message is the composer text trimmed, its model is the modelKey of
\* the active session, and it has an image field exactly when the composer
\* held an attachment, the field being that attachment's MIME type and base64
\* payload, which are the declared type and the base64 content of the file.
C15_RequestContent ==
  /\ [][ (~isSending /\ isSending') =>
           /\ Len(pending') = Len(pending) + 1
           /\ activeChat # None
           /\ LET body == pending'[Len(pending')].body
              IN /\ body.message = trim(input)
                 /\ body.model = activeChat[1].modelKey
                 /\ (body.image # None) <=> (imageAttachment # None)
                 /\ imageAttachment # None =>
                      /\ body.image[1].mime_type = imageAttachment[1].mimeType
                      /\ body.image[1].data_base64 = imageAttachment[1].dataBase64
       ]_vars
  /\ [][ Len(pending') > Len(pending) => (~isSending /\ isSending') ]_vars
  /\ [](imageAttachment # None =>
          \E f \in PickFiles : /\ imageAttachment[1].mimeType = f.type
                               /\ imageAttachment[1].dataBase64 = f.b64
                               /\ imageAttachment[1].name = f.name)

\* A request with the trimmed text and an image is in flight, and its model is
\* not the dropdown's selection.
C15_Witness ==
  /\ pending # <<>>
  /\ pending[1].body.message = <<"h", "i">>
  /\ pending[1].body.image # None
  /\ pending[1].body.image[1].data_base64 = <<"/9j/4">>
  /\ pending[1].body.model # selectedModelKey

\* C16: in every reachable state the sessions have pairwise distinct ids, and
\* a step that appends a message changes the log of exactly one session.
C16_IdsNeverReused ==
  /\ [](\A i, j \in DOMAIN chats : chats[i].id = chats[j].id => i = j)
  /\ [][ Len(chats') = Len(chats) =>
           Cardinality({ i \in DOMAIN chats : chats'[i].messages # chats[i].messages }) <= 1
       ]_vars

\* C17: the step that sets the in-flight flag appends the user message, with
\* the trimmed text and the preview of the attachment if there is one, to the
\* session that is active, empties the composer text and attachment, and
\* leaves the request outstanding; the step that ends the request, with a
\* reply or with a failure, leaves the composer and that user message as the
\* send left them.
C17_OptimisticAppend ==
  /\ [][ (~isSending /\ isSending') =>
           /\ activeChat # None
           /\ input' = <<>>
           /\ imageAttachment' = None
           /\ Len(pending') = Len(pending) + 1
           /\ pending'[Len(pending')].chatIdAtSend = activeChat[1].id
           /\ \E a \in DOMAIN chats :
                /\ chats[a].id = activeChat[1].id
                /\ Len(chats'[a].messages) = Len(chats[a].messages) + 1
                /\ SubSeq(chats'[a].messages, 1, Len(chats[a].messages)) = chats[a].messages
                /\ LET m == chats'[a].messages[Len(chats'[a].messages)]
                   IN /\ m.role = "user"
                      /\ m.content = trim(input)
                      /\ m.imageDataUrl =
                           IF imageAttachment = None THEN None
                           ELSE Some(imageAttachment[1].dataUrl)
                      /\ m.imageAlt =
                           IF imageAttachment = None THEN None
                           ELSE Some(imageAttachment[1].name)
       ]_vars
  /\ [][ Len(pending') < Len(pending) =>
           /\ input' = input
           /\ imageAttachment' = imageAttachment
           /\ \A a \in DOMAIN chats : IsPrefix(chats[a].messages, chats'[a].messages)
       ]_vars

\* The request of a send with an image is outstanding: the user message with
\* the preview is the last of its log and the composer is empty ...
C17_Witness ==
  /\ isSending
  /\ pending # <<>>
  /\ input = <<>>
  /\ imageAttachment = None
  /\ \E a \in DOMAIN chats :
       /\ chats[a].id = pending[1].chatIdAtSend
       /\ chats[a].messages # <<>>
       /\ chats[a].messages[Len(chats[a].messages)].role = "user"
       /\ chats[a].messages[Len(chats[a].messages)].imageDataUrl # None
  \* ... after an earlier send has failed and left its user message in another log.
  /\ \E b \in DOMAIN chats :
       /\ chats[b].id # pending[1].chatIdAtSend
       /\ chats[b].messages # <<>>
       /\ chats[b].messages[Len(chats[b].messages)].role = "user"

C19_IndexAndTitle ==
  /\ [][ Len(chats') > Len(chats) =>
           /\ Len(chats') = Len(chats) + 1
           /\ SubSeq(chats', 1, Len(chats)) = chats
           /\ LET c == chats'[Len(chats')]
              IN /\ c.index = Len(chats) + 1
                 /\ c.title = <<"Chat ", c.index>>
                 /\ c.messages = <<>>
                 /\ activeChatId' = Some(c.id)
       ]_vars
  /\ [](\A k \in DOMAIN chats : chats[k].index = k /\ chats[k].title = <<"Chat ", k>>)
  /\ [][ /\ Len(chats') >= Len(chats)
         /\ \A k \in DOMAIN chats :
              chats'[k].index = chats[k].index /\ chats'[k].title = chats[k].title
       ]_vars

\* The fifth session has just been created and is the active one, after a
\* send on the first session got its reply.
C19_Witness ==
  /\ Len(chats) = 5
  /\ chats[5].index = 5
  /\ chats[5].title = <<"Chat ", 5>>
  /\ activeChatId = Some(chats[5].id)
  /\ HasBotMessage(chats[1])
  /\ chats[1].title = <<"Chat ", 1>>

\* C20: handleSend with a text that is empty after trimming changes nothing,
\* whether or not a session is active or an attachment is pending; with a
\* non-empty text and no send in flight, a missing active session gives the
\* error of the missing session even when an attachment is pending, and only
\* with an active session does an attachment its model cannot take give the
\* capability error; every refused call leaves all but the error slot as it
\* was, so it appends no message and issues no request.
C20_PreconditionOrder ==
  [][ handleSend =>
        IF trim(input) = <<>>
        THEN UNCHANGED vars
        ELSE ~isSending =>
               IF activeChat = None
               THEN /\ error' = Some("Create a chat first (+) and select a model.")
                    /\ UNCHANGED << input, isSending, selectedModelKey, imageAttachment,
                                    chats, activeChatId, pending, reads >>
               ELSE IF imageAttachment # None /\ ~MODEL_SUPPORTS_IMAGE(activeChat[1].modelKey)
               THEN /\ error' = CapabilityError
                    /\ UNCHANGED << input, isSending, selectedModelKey, imageAttachment,
                                    chats, activeChatId, pending, reads >>
               ELSE isSending' /\ Len(pending') = Len(pending) + 1
    ]_vars

\* No session exists, the composer holds a non-empty text and an attachment,
\* and the slot shows the error of the missing session.
C20_Witness ==
  /\ chats = <<>>
  /\ activeChatId = None
  /\ trim(input) # <<>>
  /\ imageAttachment # None
  /\ error = Some("Create a chat first (+) and select a model.")
  /\ pending = <<>>

\* C21: the click on the tab of a session sets the active-session pointer to
\* that session's id and empties the error slot and the composer attachment;
\* it leaves the sessions (logs, ids, indices, titles, models, their number),
\* the in-flight flag, the outstanding request, the composer text, the
\* dropdown selection and the reads in progress as they were.
C21_SelectFrame ==
  [][ \A i \in DOMAIN chats :
        selectTab(i) =>
          /\ activeChatId' = Some(chats[i].id)
          /\ error' = None
          /\ imageAttachment' = None
          /\ chats' = chats
          /\ isSending' = isSending
          /\ pending' = pending
          /\ input' = input
          /\ selectedModelKey' = selectedModelKey
          /\ reads' = reads
    ]_vars

\* While a request is outstanding another session has been selected: the
\* composer text is still there, the slot and the attachment are empty, the
\* log of the sending session holds its user message.
C21_Witness ==
  /\ isSending
  /\ pending # <<>>
  /\ activeChatId # None
  /\ activeChatId # Some(pending[1].chatIdAtSend)
  /\ trim(input) # <<>>
  /\ error = None
  /\ imageAttachment = None
  /\ \E a \in DOMAIN chats :
       chats[a].id = pending[1].chatIdAtSend /\ chats[a].messages # <<>>

\* C22: in every reachable state every bot message in the log of a session
\* carries the label of the model of that session.
C22_BotLabel ==
  \A a \in DOMAIN chats : \A k \in DOMAIN chats[a].messages :
    chats[a].messages[k].role = "bot" =>
      chats[a].messages[k].modelLabel = Some(chats[a].modelLabel)

\* The labelling of C22 in the states where makeId has returned no id twice.
BotLabelWhenIdsDistinct == DistinctIds => C22_BotLabel

\* C23: as long as the request of an accepted send has no outcome, the
\* in-flight flag stays set and no send is accepted: a step taken while the
\* flag is set that is not the outcome of the request leaves the flag set and
\* the outstanding request as it is, and appends no message; so no timeout,
\* retry or cancellation step exists.
C23_HungRequest ==
  [][ (isSending /\ Len(pending') >= Len(pending)) =>
        /\ isSending'
        /\ pending' = pending
        /\ \A a \in DOMAIN chats : chats'[a].messages = chats[a].messages
    ]_vars

\* A request is outstanding while the user has selected another session,
\* typed a text and attached an image there.
C23_Witness ==
  /\ isSending
  /\ Len(pending) = 1
  /\ activeChatId # None
  /\ activeChatId # Some(pending[1].chatIdAtSend)
  /\ trim(input) # <<>>
  /\ imageAttachment # None
  /\ reads = <<>>

\* C24: in every reachable state the in-flight flag is set exactly when one
\* request is outstanding, and never more than one request is outstanding.
C24_FlagIffOutstanding ==
  /\ Len(pending) <= 1
  /\ isSending <=> Len(pending) = 1

\* A send has failed and none is outstanding: the flag is clear, the slot
\* shows the failure, and the user has moved on to another session.
C24_Witness ==
  /\ ~isSending
  /\ pending = <<>>
  /\ error = Some("Failed to fetch")
  /\ Len(chats) = 2
  /\ \E a \in DOMAIN chats :
       /\ Some(chats[a].id) # activeChatId
       /\ chats[a].messages # <<>>
       /\ chats[a].messages[Len(chats[a].messages)].role = "user"

\* C25: in every reachable state the active-session pointer is null exactly
\* when there is no session, and otherwise it is the id of a session of the
\* collection, so that an active session exists once one has been created.
C25_ActivePointer ==
  /\ activeChatId = None <=> chats = <<>>
  /\ activeChatId # None => \E i \in DOMAIN chats : chats[i].id = activeChatId[1]
  /\ chats # <<>> => activeChat # None

\* Two sessions exist and the first one has been selected again after the
\* second was created.
C25_Witness ==
  /\ Len(chats) = 2
  /\ chats[1].id # chats[2].id
  /\ activeChatId = Some(chats[1].id)
  /\ activeChat = Some(chats[1])

\* C26: the read of a picked file installs the composer attachment only in
\* the composer the file was picked in: the session that was active at the
\* pick is still the active one and no send has been accepted since.  Under
\* SpecLate every file is picked with the first session active and all logs
\* empty, so this reads: when a read installs the attachment, the active
\* session is the first one and all logs are empty.
C26_AttachmentBelongsToComposer ==
  [][ \A i \in DOMAIN reads :
        readLoaded(i) =>
          /\ activeChatId = Some(chats[1].id)
          /\ TotalMessages = 0
    ]_vars

====
